---- MODULE Spec2Model ----
(***************************************************************************)
(* Model of src/src/innernet_manager.py: the InnernetManager registry of   *)
(* networks and peers kept in two SQLite tables.                           *)
(*                                                                         *)
(* An IPv4 address is its 32-bit value (10.0.0.0 is 10 * 2^24), a CIDR is  *)
(* the pair [addr, len] the string "a.b.c.d/len" denotes.  A table is the  *)
(* sequence of its rows in rowid (insertion) order.  uuid4 identifiers are *)
(* fresh values; the model draws the least unused positive integer.  The   *)
(* free-text / random columns no operation reads back to decide anything   *)
(* (description, created_at, public_key, endpoint) are left out.           *)
(* clock is the time datetime.now() reads, calls holds the add_peer calls  *)
(* of concurrent callers that are between two of their transactions.       *)
(***************************************************************************)
EXTENDS Integers, Sequences, FiniteSets, TLC

VARIABLES networks, peers, last, clock, calls

vars == <<networks, peers, last, clock, calls>>

----------------------------------------------------------------------------
(* Bounds of the model *)

MaxNets == 2
MaxPeers == 5
MaxAllocPeers == 7
MaxClock == 2

(* Python's None: ip argument omitted, NULL column, no return value *)
None == -1

(* 10.0.0.0 *)
TenNet == 10 * (2 ^ 24)

PREDEFINED_NETWORK == "BlackRoad-Pi"
PREDEFINED_PEERS == <<"aria64", "alice", "blackroad-pi", "macbook">>

(* Inputs the actions of Spec draw from *)
NetNames == {PREDEFINED_NETWORK, "Lab"}
PeerNames == {"a", "alice"}
CidrInputs == { [addr |-> TenNet, len |-> 30],
                [addr |-> TenNet + 1, len |-> 30],
                [addr |-> TenNet, len |-> 33] }
IpInputs == {None, TenNet + 4}
NetIdInputs == 1..MaxNets

(* Inputs the actions of SpecAlloc draw from: allocation on a /30 or /31   *)
(* network created next to the predefined one                              *)
LabNames == {"Lab"}
LabCidrs == { [addr |-> TenNet, len |-> 30],
              [addr |-> TenNet, len |-> 31] }
LabPeerNames == {"a", "b", "c"}
LabNetIds == {2}
LabIps == {None, TenNet + 1}

----------------------------------------------------------------------------
(* ipaddress.ip_network(cidr), strict: the prefix length is 0..32 and no   *)
(* host bit of the address is set; otherwise ValueError.                   *)

NumAddresses(cidr) == 2 ^ (32 - cidr.len)

(* variant: ip_network(cidr, strict=False), host bits tolerated *)
CidrParsesNonStrict(cidr) == cidr.len \in 0..32

CidrParses(cidr) ==
    /\ cidr.len \in 0..32
    /\ cidr.addr % NumAddresses(cidr) = 0

(* network.hosts(): first and last address of the enumeration.  Network    *)
(* and broadcast address are left out, except for /31 (both addresses)     *)
(* and /32 (the one address).                                              *)
(* variant: the enumeration starts at the network address *)
FirstHostIsNetworkAddress(cidr) == cidr.addr

FirstHost(cidr) == IF cidr.len >= 31 THEN cidr.addr ELSE cidr.addr + 1

LastHost(cidr) ==
    IF cidr.len >= 31 THEN cidr.addr + NumAddresses(cidr) - 1
    ELSE cidr.addr + NumAddresses(cidr) - 2

(* for candidate in network.hosts(): if candidate not in existing_ips:     *)
(* ip = candidate; break -- ip stays None when the loop finds nothing.     *)
(* variant: the first candidate is taken without looking at existing_ips *)
FirstFreeIgnoringAssigned(candidate, lastHost, existing_ips) ==
    IF candidate > lastHost THEN None ELSE candidate

RECURSIVE FirstFree(_, _, _)
FirstFree(candidate, lastHost, existing_ips) ==
    IF candidate > lastHost THEN None
    ELSE IF candidate \notin existing_ips THEN candidate
    ELSE FirstFree(candidate + 1, lastHost, existing_ips)

----------------------------------------------------------------------------
(* Table helpers *)

Rows(table) == {table[i] : i \in 1..Len(table)}

RECURSIVE LeastUnused(_, _)
LeastUnused(n, used) == IF n \notin used THEN n ELSE LeastUnused(n + 1, used)

(* str(uuid.uuid4()) *)
FreshId(table) == LeastUnused(1, {r.id : r \in Rows(table)})

(* SELECT cidr FROM networks WHERE id = ? *)
NetworkById(nets, network_id) == {n \in Rows(nets) : n.id = network_id}

(* SELECT ip FROM peers WHERE network_id = ?, rows with a falsy ip dropped *)
ExistingIps(prs, network_id) ==
    {p.ip : p \in {q \in Rows(prs) : q.network_id = network_id /\ q.ip # None}}

(* UNIQUE(network_id, name) on peers *)
PeerNameTaken(prs, network_id, name) ==
    \E p \in Rows(prs) : p.network_id = network_id /\ p.name = name

(* variant: no UNIQUE constraint on networks.name *)
NetworkNameNeverTaken(nets, name) == FALSE

(* name TEXT NOT NULL UNIQUE on networks *)
NetworkNameTaken(nets, name) == \E n \in Rows(nets) : n.name = name

(* the outcome of a call: returned value or raised error *)
Ok(db, ret) == [networks |-> db.networks, peers |-> db.peers,
                ok |-> TRUE, err |-> "", ret |-> ret]
Raise(db, err) == [networks |-> db.networks, peers |-> db.peers,
                   ok |-> FALSE, err |-> err, ret |-> None]

----------------------------------------------------------------------------
(* create_network(name, cidr): ValueError on a CIDR that does not parse,   *)
(* sqlite3.IntegrityError on a taken name (the INSERT is rolled back),     *)
(* else one new row with peer_count 0.                                     *)
CreateNetwork(db, name, cidr) ==
    IF ~CidrParses(cidr) THEN Raise(db, "InvalidCIDR")
    ELSE IF NetworkNameTaken(db.networks, name) THEN Raise(db, "DuplicateName")
    ELSE LET network_id == FreshId(db.networks)
         IN Ok([networks |-> Append(db.networks,
                                    [id |-> network_id, name |-> name,
                                     cidr |-> cidr, peer_count |-> 0]),
                peers |-> db.peers],
               network_id)

(* UPDATE networks SET peer_count = peer_count + 1 WHERE id = ? *)
IncrementPeerCount(nets, network_id) ==
    [i \in 1..Len(nets) |->
        IF nets[i].id = network_id
        THEN [nets[i] EXCEPT !.peer_count = @ + 1]
        ELSE nets[i]]

(* variant: the peer_count update is committed on its own before the       *)
(* INSERT, so a refused INSERT leaves the count incremented                *)
AddPeerCountCommittedFirst(db, network_id, name, ip) ==
    IF NetworkById(db.networks, network_id) = {}
    THEN Raise(db, "NetworkNotFound")
    ELSE LET cidr == (CHOOSE n \in NetworkById(db.networks, network_id) : TRUE).cidr
             assigned == IF ip = None
                         THEN FirstFree(FirstHost(cidr), LastHost(cidr),
                                        ExistingIps(db.peers, network_id))
                         ELSE ip
             peer_id == FreshId(db.peers)
             peer == [id |-> peer_id, network_id |-> network_id,
                      name |-> name, ip |-> assigned,
                      last_handshake |-> None, status |-> "disconnected",
                      groups |-> <<>>]
             counted == IncrementPeerCount(db.networks, network_id)
         IN IF PeerNameTaken(db.peers, network_id, name)
            THEN Raise([networks |-> counted, peers |-> db.peers],
                       "DuplicateName")
            ELSE Ok([networks |-> counted, peers |-> Append(db.peers, peer)],
                    peer_id)

(* add_peer(network_id, name, ip=None) *)
AddPeer(db, network_id, name, ip) ==
    IF NetworkById(db.networks, network_id) = {}
    THEN Raise(db, "NetworkNotFound")
    ELSE LET cidr == (CHOOSE n \in NetworkById(db.networks, network_id) : TRUE).cidr
             assigned == IF ip = None
                         THEN FirstFree(FirstHost(cidr), LastHost(cidr),
                                        ExistingIps(db.peers, network_id))
                         ELSE ip
             peer_id == FreshId(db.peers)
             peer == [id |-> peer_id, network_id |-> network_id,
                      name |-> name, ip |-> assigned,
                      last_handshake |-> None, status |-> "disconnected",
                      groups |-> <<>>]
         IN IF PeerNameTaken(db.peers, network_id, name)
            THEN Raise(db, "DuplicateName")
            ELSE Ok([networks |-> IncrementPeerCount(db.networks, network_id),
                     peers |-> Append(db.peers, peer)],
                    peer_id)

(* DELETE FROM peers WHERE network_id = ? AND name = ? *)
DeletePeer(prs, network_id, peer_name) ==
    SelectSeq(prs, LAMBDA p : ~(p.network_id = network_id /\ p.name = peer_name))

(* UPDATE networks SET peer_count = peer_count - 1                         *)
(* WHERE id = ? AND peer_count > 0                                         *)
DecrementPeerCount(nets, network_id) ==
    [i \in 1..Len(nets) |->
        IF nets[i].id = network_id /\ nets[i].peer_count > 0
        THEN [nets[i] EXCEPT !.peer_count = @ - 1]
        ELSE nets[i]]

(* remove_peer(network_id, peer_name) *)
RemovePeer(db, network_id, peer_name) ==
    Ok([networks |-> DecrementPeerCount(db.networks, network_id),
        peers |-> DeletePeer(db.peers, network_id, peer_name)],
       None)

----------------------------------------------------------------------------
(* add_peer as its three transactions.  Each "with sqlite3.connect" block  *)
(* is one transaction on the store; between them another caller's          *)
(* transactions may run.  A call in flight carries the local variables of  *)
(* add_peer.                                                               *)

IdleCall == [pc |-> "idle", network_id |-> None, name |-> "",
             cidr |-> [addr |-> 0, len |-> 0], existing_ips |-> {},
             ip |-> None]

(* first block: SELECT cidr FROM networks WHERE id = ? *)
ReadCidr(db, network_id, name) ==
    IF NetworkById(db.networks, network_id) = {}
    THEN [IdleCall EXCEPT !.pc = "raised", !.network_id = network_id,
                          !.name = name]
    ELSE [IdleCall EXCEPT !.pc = "cidr", !.network_id = network_id,
                          !.name = name,
                          !.cidr = (CHOOSE n \in NetworkById(db.networks,
                                                 network_id) : TRUE).cidr]

(* second block and the loop over network.hosts() *)
ReadIps(db, call) ==
    LET existing_ips == ExistingIps(db.peers, call.network_id)
    IN [call EXCEPT !.pc = "chosen",
                    !.existing_ips = existing_ips,
                    !.ip = FirstFree(FirstHost(call.cidr), LastHost(call.cidr),
                                     existing_ips)]

(* variant: the new peer_count is computed from the rows read in the       *)
(* second block instead of by the UPDATE itself                            *)
InsertPeerCountFromRead(db, call) ==
    LET peer_id == FreshId(db.peers)
        peer == [id |-> peer_id, network_id |-> call.network_id,
                 name |-> call.name, ip |-> call.ip,
                 last_handshake |-> None, status |-> "disconnected",
                 groups |-> <<>>]
    IN IF PeerNameTaken(db.peers, call.network_id, call.name)
       THEN Raise(db, "DuplicateName")
       ELSE Ok([networks |-> [i \in 1..Len(db.networks) |->
                                 IF db.networks[i].id = call.network_id
                                 THEN [db.networks[i] EXCEPT !.peer_count =
                                          Cardinality(call.existing_ips) + 1]
                                 ELSE db.networks[i]],
                peers |-> Append(db.peers, peer)],
               peer_id)

(* third block: INSERT INTO peers and UPDATE networks, one commit *)
InsertPeer(db, call) ==
    LET peer_id == FreshId(db.peers)
        peer == [id |-> peer_id, network_id |-> call.network_id,
                 name |-> call.name, ip |-> call.ip,
                 last_handshake |-> None, status |-> "disconnected",
                 groups |-> <<>>]
    IN IF PeerNameTaken(db.peers, call.network_id, call.name)
       THEN Raise(db, "DuplicateName")
       ELSE Ok([networks |-> IncrementPeerCount(db.networks, call.network_id),
                peers |-> Append(db.peers, peer)],
               peer_id)

----------------------------------------------------------------------------
(* Groups.  The groups column holds json.dumps of a list of strings and is *)
(* read back with json.loads; for lists of these plain strings the pair is *)
(* exact, so the column is modelled as the sequence itself.                *)

VALID_GROUPS == {"admin", "workers", "sensors", "public", "internal"}

Elements(seq) == {seq[i] : i \in 1..Len(seq)}

(* SELECT ... FROM peers WHERE name = ? answered by a scan of the table in *)
(* rowid order: the positions of the matching rows                         *)
RowsNamed(prs, peer_name) == {i \in 1..Len(prs) : prs[i].name = peer_name}

(* cursor.fetchone(): the first matching row *)
FirstNamed(prs, peer_name) ==
    prs[CHOOSE i \in RowsNamed(prs, peer_name) :
            \A j \in RowsNamed(prs, peer_name) : i <= j]

(* if group not in groups: groups.append(group) *)
WithGroup(groups, group) ==
    IF group \in Elements(groups) THEN groups ELSE Append(groups, group)

(* UPDATE peers SET groups = ? WHERE name = ? *)
SetGroupsByName(prs, peer_name, groups) ==
    [i \in 1..Len(prs) |->
        IF prs[i].name = peer_name
        THEN [prs[i] EXCEPT !.groups = groups]
        ELSE prs[i]]

(* variant: the peer is looked up before the group is validated *)
AssignGroupLooksUpFirst(db, peer_name, group) ==
    IF RowsNamed(db.peers, peer_name) = {} THEN Raise(db, "PeerNotFound")
    ELSE IF group \notin VALID_GROUPS THEN Raise(db, "InvalidGroup")
    ELSE Ok([networks |-> db.networks,
             peers |-> SetGroupsByName(db.peers, peer_name,
                           WithGroup(FirstNamed(db.peers, peer_name).groups,
                                     group))],
            None)

(* variant: the group is appended without the membership test *)
AssignGroupAlwaysAppends(db, peer_name, group) ==
    IF group \notin VALID_GROUPS THEN Raise(db, "InvalidGroup")
    ELSE IF RowsNamed(db.peers, peer_name) = {} THEN Raise(db, "PeerNotFound")
    ELSE Ok([networks |-> db.networks,
             peers |-> SetGroupsByName(db.peers, peer_name,
                           Append(FirstNamed(db.peers, peer_name).groups,
                                  group))],
            None)

(* assign_group(peer_name, group) *)
AssignGroup(db, peer_name, group) ==
    IF group \notin VALID_GROUPS THEN Raise(db, "InvalidGroup")
    ELSE IF RowsNamed(db.peers, peer_name) = {} THEN Raise(db, "PeerNotFound")
    ELSE Ok([networks |-> db.networks,
             peers |-> SetGroupsByName(db.peers, peer_name,
                           WithGroup(FirstNamed(db.peers, peer_name).groups,
                                     group))],
            None)

(* the outcome of a call that returns data: out is the returned value *)
ReadOk(db, out) == [networks |-> db.networks, peers |-> db.peers,
                    ok |-> TRUE, err |-> "", ret |-> None, out |-> out]
ReadRaise(db, err) == [networks |-> db.networks, peers |-> db.peers,
                       ok |-> FALSE, err |-> err, ret |-> None, out |-> <<>>]

----------------------------------------------------------------------------
(* Row order of the queries.  A query without WHERE network_id scans the   *)
(* table in rowid order.  SQLite answers WHERE network_id = ? through the  *)
(* index of UNIQUE(network_id, name), so those rows come in ascending name *)
(* order (BINARY collation); NameOrder lists the names of the model in     *)
(* that order.                                                             *)

NameOrder == <<"a", "alice", "aria64", "b", "blackroad-pi", "c", "macbook">>

RECURSIVE ByName(_, _, _)
ByName(prs, network_id, k) ==
    IF k > Len(NameOrder) THEN <<>>
    ELSE SelectSeq(prs, LAMBDA p : p.network_id = network_id
                                   /\ p.name = NameOrder[k])
         \o ByName(prs, network_id, k + 1)

(* SELECT * FROM peers WHERE network_id = ? *)
RowsOfNetwork(prs, network_id) == ByName(prs, network_id, 1)

(* an omitted group argument (None and "" are both falsy) *)
NoGroup == ""

(* list_peers(network_id=None, group=None) *)
ListPeers(db, network_id, group) ==
    LET queried == IF network_id # None
                   THEN RowsOfNetwork(db.peers, network_id)
                   ELSE db.peers
        filtered == IF group # NoGroup
                    THEN SelectSeq(queried,
                                   LAMBDA p : group \in Elements(p.groups))
                    ELSE queried
    IN ReadOk(db, filtered)

----------------------------------------------------------------------------
(* ping_peer.  The row is read on one connection and written on a second   *)
(* one.  The cursor of the first connection stays open; fetchone has       *)
(* already stepped past the row it returns, so the statement is finished   *)
(* (and its read lock released) only when no second row has that name.     *)
(* With a second row of that name the read lock is still held when the     *)
(* second connection commits, and the commit ends in                       *)
(* sqlite3.OperationalError (database is locked) without writing.          *)
(* hash(peer_name) % 3 differs from process to process, so is_reachable is *)
(* an input; now is datetime.now().                                        *)

(* the first connection still holds its read lock *)
ReadLockHeld(prs, peer_name) == Cardinality(RowsNamed(prs, peer_name)) > 1

(* UPDATE peers SET status = 'connected', last_handshake = ? WHERE id = ? *)
SetConnected(prs, peer_id, now) ==
    [i \in 1..Len(prs) |->
        IF prs[i].id = peer_id
        THEN [prs[i] EXCEPT !.status = "connected", !.last_handshake = now]
        ELSE prs[i]]

(* variant: an unreachable peer is written back as disconnected *)
PingPeerMarksUnreachable(db, peer_name, is_reachable, now) ==
    IF RowsNamed(db.peers, peer_name) = {} THEN Raise(db, "PeerNotFound")
    ELSE IF ReadLockHeld(db.peers, peer_name) THEN Raise(db, "DatabaseLocked")
    ELSE IF ~is_reachable
    THEN Ok([networks |-> db.networks,
             peers |-> [i \in 1..Len(db.peers) |->
                          IF db.peers[i].name = peer_name
                          THEN [db.peers[i] EXCEPT !.status = "disconnected"]
                          ELSE db.peers[i]]],
            None)
    ELSE Ok([networks |-> db.networks,
             peers |-> SetConnected(db.peers,
                                    FirstNamed(db.peers, peer_name).id, now)],
            None)

(* ping_peer(peer_name) *)
PingPeer(db, peer_name, is_reachable, now) ==
    IF RowsNamed(db.peers, peer_name) = {} THEN Raise(db, "PeerNotFound")
    ELSE IF ~is_reachable THEN Ok(db, None)
    ELSE IF ReadLockHeld(db.peers, peer_name) THEN Raise(db, "DatabaseLocked")
    ELSE Ok([networks |-> db.networks,
             peers |-> SetConnected(db.peers,
                                    FirstNamed(db.peers, peer_name).id, now)],
            None)

----------------------------------------------------------------------------
(* The remaining read operations.  out is what the call returns, as a      *)
(* sequence of records.                                                    *)

RECURSIVE SumPeerCount(_, _)
SumPeerCount(nets, i) ==
    IF i > Len(nets) THEN 0 ELSE nets[i].peer_count + SumPeerCount(nets, i + 1)

(* the COUNT of the peers WHERE status = 'connected' *)
ConnectedCount(prs) ==
    Cardinality({i \in 1..Len(prs) : prs[i].status = "connected"})

(* variant: total_peers counts the peer rows *)
GetStatusCountsRows(db) ==
    ReadOk(db, <<[connected_peers |-> ConnectedCount(db.peers),
                  total_peers |-> Len(db.peers)]>>)

(* get_status() *)
GetStatus(db) ==
    ReadOk(db, <<[connected_peers |-> ConnectedCount(db.peers),
                  total_peers |-> SumPeerCount(db.networks, 1)]>>)

(* peers JOIN networks ON peers.network_id = networks.id WHERE name = ?,   *)
(* peers scanned in rowid order                                            *)
JoinedNamed(db, peer_name) ==
    SelectSeq(db.peers,
              LAMBDA p : p.name = peer_name
                         /\ NetworkById(db.networks, p.network_id) # {})

(* generate_config(peer_name): the address and the allowed range of the    *)
(* rendered text                                                           *)
GenerateConfig(db, peer_name) ==
    LET joined == JoinedNamed(db, peer_name)
    IN IF joined = <<>> THEN ReadRaise(db, "PeerNotFound")
       ELSE ReadOk(db, <<[ip |-> joined[1].ip,
                          cidr |-> (CHOOSE n \in NetworkById(db.networks,
                                                 joined[1].network_id) : TRUE).cidr]>>)

UnknownNetwork == "Unknown"

(* the line of the box that names the network *)
NetworkLine(nets, network_id) ==
    [network |-> IF NetworkById(nets, network_id) = {} THEN UnknownNetwork
                 ELSE (CHOOSE n \in NetworkById(nets, network_id) : TRUE).name]

(* one line of the box per peer; SELECT ... ORDER BY name *)
PeerLines(prs, network_id) ==
    LET rows == ByName(prs, network_id, 1)
    IN [i \in 1..Len(rows) |->
           [name |-> rows[i].name, ip |-> rows[i].ip, status |-> rows[i].status]]

(* export_network_map(network_id): the lines of the box without its frame; *)
(* format(None, "<18") raises TypeError                                    *)
ExportNetworkMap(db, network_id) ==
    IF \E p \in Rows(db.peers) : p.network_id = network_id /\ p.ip = None
    THEN ReadRaise(db, "TypeError")
    ELSE ReadOk(db, <<NetworkLine(db.networks, network_id)>>
                    \o PeerLines(db.peers, network_id))

----------------------------------------------------------------------------
(* __init__: _init_db creates the empty tables, _populate_defaults fills   *)
(* in the predefined network and peers unless the network exists.          *)

EmptyDb == [networks |-> <<>>, peers |-> <<>>]

Db(r) == [networks |-> r.networks, peers |-> r.peers]

(* variant: the addresses start at the first host, 10.0.0.{i + 1} *)
RECURSIVE AddPredefinedPeersFromFirstHost(_, _, _)
AddPredefinedPeersFromFirstHost(db, network_id, i) ==
    IF i >= Len(PREDEFINED_PEERS) THEN db
    ELSE AddPredefinedPeersFromFirstHost(
             Db(AddPeer(db, network_id, PREDEFINED_PEERS[i + 1], TenNet + i + 1)),
             network_id, i + 1)

RECURSIVE AddPredefinedPeers(_, _, _)
AddPredefinedPeers(db, network_id, i) ==
    IF i >= Len(PREDEFINED_PEERS) THEN db
    ELSE AddPredefinedPeers(
             Db(AddPeer(db, network_id, PREDEFINED_PEERS[i + 1], TenNet + i + 2)),
             network_id, i + 1)

PopulateDefaults(db) ==
    IF NetworkNameTaken(db.networks, PREDEFINED_NETWORK) THEN db
    ELSE LET r == CreateNetwork(db, PREDEFINED_NETWORK,
                                [addr |-> TenNet, len |-> 8])
         IN AddPredefinedPeers(Db(r), r.ret, 0)

(* InnernetManager(): _init_db leaves existing tables alone, then          *)
(* _populate_defaults runs                                                 *)
Construct(db) == Ok(PopulateDefaults(db), None)

(* main(): the command line.  A manager is constructed, the command's      *)
(* method is called and its result printed; an exception ends the process  *)
(* with a traceback and nothing printed.  out is what was printed.         *)

Printed(db, r) == [networks |-> db.networks, peers |-> db.peers,
                   ok |-> r.ok, err |-> r.err, ret |-> None, out |-> r.out]

Main(db, command, arg) ==
    LET manager == Db(Construct(db))
    IN IF command = "status" THEN Printed(manager, GetStatus(manager))
       ELSE IF command = "config"
       THEN Printed(manager, GenerateConfig(manager, arg.peer_name))
       ELSE IF command = "map"
       THEN Printed(manager, ExportNetworkMap(manager, arg.network_id))
       ELSE Printed(manager, ReadOk(manager, <<>>))


NoCall == [op |-> "init", command |-> "", network_id |-> None, name |-> "",
           ip |-> None,
           cidr |-> [addr |-> 0, len |-> 0], group |-> "",
           reachable |-> FALSE, ok |-> TRUE, err |-> "",
           ret |-> None, out |-> <<>>]

NoCalls == <<>>

Init ==
    /\ networks = PopulateDefaults(EmptyDb).networks
    /\ peers = PopulateDefaults(EmptyDb).peers
    /\ last = NoCall
    /\ clock = 0
    /\ calls = NoCalls

----------------------------------------------------------------------------
(* One action per registry operation: the call is applied to the stored   *)
(* tables, last records the call and its outcome.  cap bounds the number   *)
(* of peer rows the exploration lets the table grow to.                    *)

Cur == [networks |-> networks, peers |-> peers]

WithinBounds(r, cap) == Len(r.networks) <= MaxNets /\ Len(r.peers) <= cap

Outcome(call, r) == [call EXCEPT !.ok = r.ok, !.err = r.err, !.ret = r.ret]

CreateNetworkCall(names, cidrs, cap) ==
    \E name \in names, cidr \in cidrs :
        LET r == CreateNetwork(Cur, name, cidr)
        IN /\ WithinBounds(r, cap)
           /\ networks' = r.networks
           /\ peers' = r.peers
           /\ last' = Outcome([NoCall EXCEPT !.op = "create_network",
                                             !.name = name, !.cidr = cidr], r)
           /\ UNCHANGED <<clock, calls>>

AddPeerCall(ids, names, ips, cap) ==
    \E network_id \in ids, name \in names, ip \in ips :
        LET r == AddPeer(Cur, network_id, name, ip)
        IN /\ WithinBounds(r, cap)
           /\ networks' = r.networks
           /\ peers' = r.peers
           /\ last' = Outcome([NoCall EXCEPT !.op = "add_peer",
                                             !.network_id = network_id,
                                             !.name = name, !.ip = ip], r)
           /\ UNCHANGED <<clock, calls>>

RemovePeerCall(ids, names, cap) ==
    \E network_id \in ids, name \in names :
        LET r == RemovePeer(Cur, network_id, name)
        IN /\ WithinBounds(r, cap)
           /\ networks' = r.networks
           /\ peers' = r.peers
           /\ last' = Outcome([NoCall EXCEPT !.op = "remove_peer",
                                             !.network_id = network_id,
                                             !.name = name], r)
           /\ UNCHANGED <<clock, calls>>

DoCreateNetwork == CreateNetworkCall(NetNames, CidrInputs, MaxPeers)
DoAddPeer == AddPeerCall(NetIdInputs, PeerNames, IpInputs, MaxPeers)
DoRemovePeer == RemovePeerCall(NetIdInputs, PeerNames, MaxPeers)

Next == DoCreateNetwork \/ DoAddPeer \/ DoRemovePeer

Spec == Init /\ [][Next]_vars

AllocCreateNetwork == CreateNetworkCall(LabNames, LabCidrs, MaxAllocPeers)
AllocAddPeer == AddPeerCall(LabNetIds, LabPeerNames, LabIps, MaxAllocPeers)
AllocRemovePeer == RemovePeerCall(LabNetIds, LabPeerNames, MaxAllocPeers)

NextAlloc == AllocCreateNetwork \/ AllocAddPeer \/ AllocRemovePeer

SpecAlloc == Init /\ [][NextAlloc]_vars

(* SpecGroups: group assignment on peers of two networks that may share a  *)
(* name                                                                    *)
GroupPeerNames == {"a", "alice"}
GroupNetIds == {1, 2}
GroupIps == {None}
GroupTargets == {"a", "alice", "c"}
GroupInputs == {"admin", "workers", "guests"}
ListNetIds == {None, 1, 2}
ListGroups == {NoGroup, "admin"}

(* a read operation: the value it returns is recorded in last.out *)
ReadOutcome(call, r) ==
    [call EXCEPT !.ok = r.ok, !.err = r.err, !.ret = r.ret, !.out = r.out]

ListPeersCall(ids, groups) ==
    \E network_id \in ids, group \in groups :
        LET r == ListPeers(Cur, network_id, group)
        IN /\ networks' = r.networks
           /\ peers' = r.peers
           /\ last' = ReadOutcome([NoCall EXCEPT !.op = "list_peers",
                                                 !.network_id = network_id,
                                                 !.group = group], r)
           /\ UNCHANGED <<clock, calls>>

AssignGroupCall(names, groups) ==
    \E peer_name \in names, group \in groups :
        LET r == AssignGroup(Cur, peer_name, group)
        IN /\ networks' = r.networks
           /\ peers' = r.peers
           /\ last' = Outcome([NoCall EXCEPT !.op = "assign_group",
                                             !.name = peer_name,
                                             !.group = group], r)
           /\ UNCHANGED <<clock, calls>>

GroupsCreateNetwork == CreateNetworkCall(LabNames, LabCidrs, MaxPeers)
GroupsAddPeer == AddPeerCall(GroupNetIds, GroupPeerNames, GroupIps, MaxPeers)
GroupsAssignGroup == AssignGroupCall(GroupTargets, GroupInputs)
GroupsListPeers == ListPeersCall(ListNetIds, ListGroups)

NextGroups ==
    GroupsCreateNetwork \/ GroupsAddPeer \/ GroupsAssignGroup \/ GroupsListPeers

SpecGroups == Init /\ [][NextGroups]_vars

(* SpecStatus: connectivity checks, the read operations and the command    *)
(* line, on two networks that may each hold a peer named alice.  The       *)
(* second network has one address, so the second peer added to it is       *)
(* stored without one.  The clock is read by ping_peer only and advances   *)
(* with every ping.                                                        *)
StatusPeerNames == {"alice"}
StatusLabNetIds == {2}
StatusRemoveNetIds == {1}
StatusLabPeerNames == {"b"}
StatusNetIds == {1, 2}
StatusIps == {None}
StatusTargets == {"alice", "c"}
StatusGroups == {"admin"}
StatusCidrs == {[addr |-> TenNet, len |-> 32]}
MapNetIds == {1, 2, 3}
Commands == {"status", "config", "map"}

PingPeerCall(names) ==
    \E peer_name \in names, is_reachable \in BOOLEAN :
        LET now == clock + 1
            r == PingPeer(Cur, peer_name, is_reachable, now)
        IN /\ clock < MaxClock
           /\ networks' = r.networks
           /\ peers' = r.peers
           /\ clock' = now
           /\ last' = Outcome([NoCall EXCEPT !.op = "ping_peer",
                                             !.name = peer_name,
                                             !.reachable = is_reachable], r)
           /\ UNCHANGED calls

GetStatusCall ==
    LET r == GetStatus(Cur)
    IN /\ networks' = r.networks
       /\ peers' = r.peers
       /\ last' = ReadOutcome([NoCall EXCEPT !.op = "get_status"], r)
       /\ UNCHANGED <<clock, calls>>

GenerateConfigCall(names) ==
    \E peer_name \in names :
        LET r == GenerateConfig(Cur, peer_name)
        IN /\ networks' = r.networks
           /\ peers' = r.peers
           /\ last' = ReadOutcome([NoCall EXCEPT !.op = "generate_config",
                                                 !.name = peer_name], r)
           /\ UNCHANGED <<clock, calls>>

ExportNetworkMapCall(ids) ==
    \E network_id \in ids :
        LET r == ExportNetworkMap(Cur, network_id)
        IN /\ networks' = r.networks
           /\ peers' = r.peers
           /\ last' = ReadOutcome([NoCall EXCEPT !.op = "export_network_map",
                                                 !.network_id = network_id], r)
           /\ UNCHANGED <<clock, calls>>

MainCall(commands, names, ids) ==
    \E command \in commands, peer_name \in names, network_id \in ids :
        LET arg == [peer_name |-> IF command = "config" THEN peer_name ELSE "",
                    network_id |-> IF command = "map" THEN network_id ELSE None]
            r == Main(Cur, command, arg)
        IN /\ networks' = r.networks
           /\ peers' = r.peers
           /\ last' = ReadOutcome([NoCall EXCEPT !.op = "main",
                                                 !.command = command,
                                                 !.name = arg.peer_name,
                                                 !.network_id = arg.network_id], r)
           /\ UNCHANGED <<clock, calls>>

StatusCreateNetwork == CreateNetworkCall(LabNames, StatusCidrs, MaxPeers)
StatusAddPeer == AddPeerCall(StatusNetIds, StatusPeerNames, StatusIps, MaxPeers)
StatusAddLabPeer ==
    AddPeerCall(StatusLabNetIds, StatusLabPeerNames, StatusIps, MaxPeers)
StatusRemovePeer ==
    RemovePeerCall(StatusRemoveNetIds, StatusPeerNames, MaxPeers)
StatusAssignGroup == AssignGroupCall(StatusTargets, StatusGroups)
StatusPingPeer == PingPeerCall(StatusTargets)
StatusGetStatus == GetStatusCall
StatusGenerateConfig == GenerateConfigCall(StatusTargets)
StatusExportNetworkMap == ExportNetworkMapCall(MapNetIds)
StatusListPeers == ListPeersCall(StatusLabNetIds, ListGroups)
StatusMain == MainCall(Commands, StatusTargets, MapNetIds)

NextStatus ==
    \/ StatusCreateNetwork \/ StatusAddPeer \/ StatusAddLabPeer
    \/ StatusRemovePeer
    \/ StatusAssignGroup \/ StatusPingPeer
    \/ StatusGetStatus \/ StatusGenerateConfig \/ StatusExportNetworkMap
    \/ StatusListPeers \/ StatusMain

SpecStatus == Init /\ [][NextStatus]_vars

(* SpecConc: two callers on one store, each making add_peer calls without  *)
(* an explicit ip, one transaction per step.                               *)
Callers == {1, 2}
ConcNetIds == {1, 2}
ConcPeerNames == {"a", "b"}
ConcCidrs == {[addr |-> TenNet, len |-> 30]}

InitConc ==
    /\ networks = PopulateDefaults(EmptyDb).networks
    /\ peers = PopulateDefaults(EmptyDb).peers
    /\ last = NoCall
    /\ clock = 0
    /\ calls = [c \in Callers |-> IdleCall]

Returned(call) == call.pc \in {"idle", "done", "raised"}

AddPeerBegin ==
    \E c \in Callers, network_id \in ConcNetIds, name \in ConcPeerNames :
        LET call == ReadCidr(Cur, network_id, name)
        IN /\ Returned(calls[c])
           /\ calls' = [calls EXCEPT ![c] = call]
           /\ last' = IF call.pc = "raised"
                      THEN Outcome([NoCall EXCEPT !.op = "add_peer",
                                                  !.network_id = network_id,
                                                  !.name = name],
                                   Raise(Cur, "NetworkNotFound"))
                      ELSE last
           /\ UNCHANGED <<networks, peers, clock>>

AddPeerReadIps ==
    \E c \in Callers :
        /\ calls[c].pc = "cidr"
        /\ calls' = [calls EXCEPT ![c] = ReadIps(Cur, calls[c])]
        /\ UNCHANGED <<networks, peers, last, clock>>

AddPeerInsert ==
    \E c \in Callers :
        LET r == InsertPeer(Cur, calls[c])
        IN /\ calls[c].pc = "chosen"
           /\ WithinBounds(r, MaxAllocPeers)
           /\ networks' = r.networks
           /\ peers' = r.peers
           /\ calls' = [calls EXCEPT ![c].pc = IF r.ok THEN "done" ELSE "raised"]
           /\ last' = Outcome([NoCall EXCEPT !.op = "add_peer",
                                             !.network_id = calls[c].network_id,
                                             !.name = calls[c].name], r)
           /\ UNCHANGED clock

ConcCreateNetwork ==
    /\ CreateNetworkCall(LabNames, ConcCidrs, MaxAllocPeers)
    /\ UNCHANGED calls

NextConc ==
    ConcCreateNetwork \/ AddPeerBegin \/ AddPeerReadIps \/ AddPeerInsert

SpecConc == InitConc /\ [][NextConc]_vars

(* SpecBoot starts from the store as _init_db creates it the first time,   *)
(* before _populate_defaults has run; a manager is constructed on the      *)
(* persisted store any number of times, and the peers of the predefined    *)
(* network are added and removed in between.                               *)
BootNetIds == {1}
BootIps == {None}

InitBoot ==
    /\ networks = EmptyDb.networks
    /\ peers = EmptyDb.peers
    /\ last = [NoCall EXCEPT !.op = "init_db"]
    /\ clock = 0
    /\ calls = NoCalls

ConstructCall ==
    LET r == Construct(Cur)
    IN /\ networks' = r.networks
       /\ peers' = r.peers
       /\ last' = Outcome([NoCall EXCEPT !.op = "construct"], r)
       /\ UNCHANGED <<clock, calls>>

(* the registry methods need a constructed manager *)
Constructed == Len(networks) > 0

BootAddPeer == Constructed /\ AddPeerCall(BootNetIds, PeerNames, BootIps, MaxPeers)
BootRemovePeer == Constructed /\ RemovePeerCall(BootNetIds, PeerNames, MaxPeers)

NextBoot == ConstructCall \/ BootAddPeer \/ BootRemovePeer

SpecBoot == InitBoot /\ [][NextBoot]_vars

----------------------------------------------------------------------------
(* Vocabulary of the properties, stated without the allocator's own        *)
(* definitions.                                                            *)

NetworkPeers(prs, network_id) == {p \in Rows(prs) : p.network_id = network_id}

HeldIps(prs, network_id) ==
    {p.ip : p \in NetworkPeers(prs, network_id)} \ {None}

NetCidr(nets, network_id) ==
    (CHOOSE n \in NetworkById(nets, network_id) : TRUE).cidr

(* usable host addresses: inside the prefix, strictly between the network  *)
(* address and the broadcast address                                       *)
UsableLo(cidr) == cidr.addr + 1
UsableHi(cidr) == cidr.addr + (2 ^ (32 - cidr.len)) - 2
IsUsable(cidr, a) == UsableLo(cidr) <= a /\ a <= UsableHi(cidr)
NumUsable(cidr) ==
    IF UsableHi(cidr) >= UsableLo(cidr) THEN UsableHi(cidr) - UsableLo(cidr) + 1
    ELSE 0
NumUsableHeld(cidr, held) == Cardinality({h \in held : IsUsable(cidr, h)})

(* the row a successful add_peer has just appended *)
NewPeer == peers[Len(peers)]

AutoAddCalled == last.op = "add_peer" /\ last.ip = None

----------------------------------------------------------------------------
(* C1: no two peers stored in the same network hold the same IP, after any *)
(* sequence of create_network, add_peer and remove_peer calls.             *)
C1_IpUniquePerNetwork ==
    \A i, j \in 1..Len(peers) :
        (i # j /\ peers[i].network_id = peers[j].network_id
               /\ peers[i].ip # None)
            => peers[i].ip # peers[j].ip

(* C2: every network's peer_count equals the number of peer rows that      *)
(* reference the network, and is never negative.                           *)
C2_PeerCountMatchesRows ==
    \A n \in Rows(networks) :
        /\ n.peer_count = Cardinality(NetworkPeers(peers, n.id))
        /\ n.peer_count >= 0

(* C3: add_peer without an explicit ip, under a name not yet used, on a    *)
(* network whose usable host addresses are all assigned fails and stores   *)
(* no peer (on a /30: the third automatic addition fails).                 *)
C3_ExhaustedAddFails ==
    [][ ( /\ last'.op = "add_peer"
          /\ last'.ip = None
          /\ NetworkById(networks, last'.network_id) # {}
          /\ ~PeerNameTaken(peers, last'.network_id, last'.name)
          /\ NumUsable(NetCidr(networks, last'.network_id)) > 0
          /\ NumUsableHeld(NetCidr(networks, last'.network_id),
                           HeldIps(peers, last'.network_id))
               = NumUsable(NetCidr(networks, last'.network_id)) )
        => ( ~last'.ok /\ peers' = peers /\ networks' = networks ) ]_vars

(* C4: an add_peer without an explicit ip that succeeds while a usable     *)
(* host address of the network is free stores the numerically lowest       *)
(* usable host address that no peer of the network held before the call.   *)
C4_LowestFreeUsableAssigned ==
    [][ ( /\ last'.op = "add_peer"
          /\ last'.ip = None
          /\ last'.ok
          /\ NumUsableHeld(NetCidr(networks, last'.network_id),
                           HeldIps(peers, last'.network_id))
               < NumUsable(NetCidr(networks, last'.network_id)) )
        => LET cidr == NetCidr(networks, last'.network_id)
               held == HeldIps(peers, last'.network_id)
               a == peers'[Len(peers')].ip
           IN /\ Len(peers') = Len(peers) + 1
              /\ peers'[Len(peers')].network_id = last'.network_id
              /\ IsUsable(cidr, a)
              /\ a \notin held
              /\ \A b \in UsableLo(cidr)..(a - 1) : b \in held ]_vars

(* C4 witness: an automatic addition was given an address above the first  *)
(* usable one, the lower ones being held.                                  *)
C4_Witness ==
    /\ AutoAddCalled /\ last.ok
    /\ NewPeer.id = last.ret
    /\ NewPeer.ip # None
    /\ NewPeer.ip > UsableLo(NetCidr(networks, last.network_id)) + 1

(* C5: an add_peer without an explicit ip never stores an IP that another  *)
(* peer of the same network held at the moment of the call.                *)
C5_AutoNeverReusesHeldIp ==
    [][ ( last'.op = "add_peer" /\ last'.ip = None /\ last'.ok )
        => ( /\ Len(peers') = Len(peers) + 1
             /\ ( peers'[Len(peers')].ip # None
                  => peers'[Len(peers')].ip
                        \notin HeldIps(peers, last'.network_id) ) ) ]_vars

(* C5 witness: on the /30 network an automatic addition received the first *)
(* host address although an older peer holds the second, so the first had  *)
(* been freed by remove_peer and was assigned again.                       *)
C5_Witness ==
    /\ AutoAddCalled /\ last.ok
    /\ NewPeer.id = last.ret
    /\ NetCidr(networks, last.network_id).len = 30
    /\ NewPeer.ip = UsableLo(NetCidr(networks, last.network_id))
    /\ \E i \in 1..(Len(peers) - 1) :
          /\ peers[i].network_id = last.network_id
          /\ peers[i].ip = NewPeer.ip + 1

(* C6: remove_peer naming a peer that is not in the network raises no      *)
(* error and leaves the peers table and every network record unchanged.    *)
C6_RemoveAbsentIsNoOp ==
    [][ ( /\ last'.op = "remove_peer"
          /\ ~PeerNameTaken(peers, last'.network_id, last'.name) )
        => ( last'.ok /\ peers' = peers /\ networks' = networks ) ]_vars

(* C7: add_peer fails with NetworkNotFound on an unknown network_id and    *)
(* with DuplicateName on a name already used in the network; both leave    *)
(* the peer rows and every peer_count unchanged.                           *)
C7_AddPeerFailuresChangeNothing ==
    [][ last'.op = "add_peer"
        => /\ (\A n \in Rows(networks) : n.id # last'.network_id)
                => ( /\ ~last'.ok /\ last'.err = "NetworkNotFound"
                     /\ peers' = peers /\ networks' = networks )
           /\ ( /\ \E n \in Rows(networks) : n.id = last'.network_id
                /\ \E p \in Rows(peers) : /\ p.network_id = last'.network_id
                                          /\ p.name = last'.name )
                => ( /\ ~last'.ok /\ last'.err = "DuplicateName"
                     /\ peers' = peers /\ networks' = networks ) ]_vars

(* C7 witness: an add_peer was refused for a name the network already has  *)
C7_Witness ==
    /\ last.op = "add_peer" /\ ~last.ok /\ last.err = "DuplicateName"
    /\ \E p \in Rows(peers) : p.network_id = last.network_id /\ p.name = last.name

(* a.b.c.d/len is a network prefix: len is 0..32 and the address is a      *)
(* multiple of the block size                                              *)
IsNetworkPrefix(cidr) ==
    /\ 0 <= cidr.len /\ cidr.len <= 32
    /\ (cidr.addr \div (2 ^ (32 - cidr.len))) * (2 ^ (32 - cidr.len)) = cidr.addr

(* C8: create_network fails with InvalidCIDR on a CIDR that is no network  *)
(* prefix and with DuplicateName on a taken name, storing nothing; else    *)
(* it stores exactly one new network with peer_count 0 and returns its id. *)
C8_CreateNetworkContract ==
    [][ last'.op = "create_network"
        => /\ peers' = peers
           /\ ~IsNetworkPrefix(last'.cidr)
                => ( /\ ~last'.ok /\ last'.err = "InvalidCIDR"
                     /\ networks' = networks )
           /\ ( /\ IsNetworkPrefix(last'.cidr)
                /\ \E n \in Rows(networks) : n.name = last'.name )
                => ( /\ ~last'.ok /\ last'.err = "DuplicateName"
                     /\ networks' = networks )
           /\ ( /\ IsNetworkPrefix(last'.cidr)
                /\ \A n \in Rows(networks) : n.name # last'.name )
                => ( /\ last'.ok
                     /\ Len(networks') = Len(networks) + 1
                     /\ SubSeq(networks', 1, Len(networks)) = networks
                     /\ networks'[Len(networks')]
                          = [id |-> last'.ret, name |-> last'.name,
                             cidr |-> last'.cidr, peer_count |-> 0]
                     /\ \A n \in Rows(networks) : n.id # last'.ret ) ]_vars

(* C8 witness: a create_network call stored a second network *)
C8_Witness ==
    /\ last.op = "create_network" /\ last.ok
    /\ Len(networks) = 2
    /\ networks[2].id = last.ret /\ networks[2].peer_count = 0

(* C9: no two networks share a name and no two peers of the same network   *)
(* share a name.                                                           *)
C9_NamesUnique ==
    /\ \A i, j \in 1..Len(networks) :
          i # j => networks[i].name # networks[j].name
    /\ \A i, j \in 1..Len(peers) :
          (i # j /\ peers[i].network_id = peers[j].network_id)
              => peers[i].name # peers[j].name

(* C9 witness: two peers of different networks carry the same name *)
C9_Witness ==
    \E i, j \in 1..Len(peers) :
        /\ peers[i].network_id # peers[j].network_id
        /\ peers[i].name = peers[j].name

(* C10: every stored peer's IP is a usable host address of the CIDR of the *)
(* network the peer belongs to.                                            *)
C10_PeerIpUsableInNetwork ==
    \A p \in Rows(peers) :
        \E n \in Rows(networks) : n.id = p.network_id /\ IsUsable(n.cidr, p.ip)

(* the rows _populate_defaults is to create, for network id nid and peer   *)
(* ids following the ids in use                                            *)
DefaultNetworkRow(nid) ==
    [id |-> nid, name |-> "BlackRoad-Pi",
     cidr |-> [addr |-> TenNet, len |-> 8], peer_count |-> 4]
DefaultPeerNames == <<"aria64", "alice", "blackroad-pi", "macbook">>

(* C11: _populate_defaults changes nothing when a network BlackRoad-Pi     *)
(* exists, whatever its peers; otherwise it creates that network with      *)
(* peer_count 4 and the four predefined peers at 10.0.0.2 .. 10.0.0.5 in   *)
(* list order; running it again on the result changes nothing.             *)
C11_PopulateDefaultsIdempotent ==
    [][ last'.op = "construct"
        => /\ last'.ok
           /\ (\E n \in Rows(networks) : n.name = "BlackRoad-Pi")
                => (networks' = networks /\ peers' = peers)
           /\ (\A n \in Rows(networks) : n.name # "BlackRoad-Pi")
                => /\ Len(networks') = Len(networks) + 1
                   /\ SubSeq(networks', 1, Len(networks)) = networks
                   /\ networks'[Len(networks')]
                        = DefaultNetworkRow(networks'[Len(networks')].id)
                   /\ Len(peers') = Len(peers) + 4
                   /\ SubSeq(peers', 1, Len(peers)) = peers
                   /\ \A k \in 1..4 :
                        LET p == peers'[Len(peers) + k]
                        IN /\ p.name = DefaultPeerNames[k]
                           /\ p.ip = TenNet + 1 + k
                           /\ p.network_id = networks'[Len(networks')].id
                           /\ p.status = "disconnected"
                           /\ p.groups = <<>>
           /\ PopulateDefaults([networks |-> networks', peers |-> peers'])
                = [networks |-> networks', peers |-> peers'] ]_vars

(* C11 witness: a manager was constructed on a store whose predefined      *)
(* network had lost alice and gained a, and nothing was restored           *)
C11_Witness ==
    /\ last.op = "construct"
    /\ \E n \in Rows(networks) :
          /\ n.name = "BlackRoad-Pi"
          /\ ~PeerNameTaken(peers, n.id, "alice")
          /\ PeerNameTaken(peers, n.id, "a")

(* positions of a sequence hold pairwise different values *)
NoRepeats(seq) == \A i, j \in 1..Len(seq) : i # j => seq[i] # seq[j]

GroupSet(p) == {p.groups[i] : i \in 1..Len(p.groups)}

(* C12: assign_group(name, g) on an existing peer name with a valid group   *)
(* is idempotent: a second identical call leaves every peer's group set as *)
(* the first call left it, and no stored sequence holds a group twice.     *)
C12_AssignGroupIdempotent ==
    [][ (last'.op = "assign_group" /\ last'.ok)
        => LET again == AssignGroup([networks |-> networks', peers |-> peers'],
                                    last'.name, last'.group)
           IN /\ again.ok
              /\ Len(again.peers) = Len(peers')
              /\ \A i \in 1..Len(peers') :
                    GroupSet(again.peers[i]) = GroupSet(peers'[i])
              /\ \A i \in 1..Len(peers') : NoRepeats(peers'[i].groups)
              /\ \A i \in 1..Len(again.peers) : NoRepeats(again.peers[i].groups) ]_vars

(* C12 witness: the call named a group the peer already had (it is not the *)
(* last of the stored sequence)                                            *)
C12_Witness ==
    /\ last.op = "assign_group" /\ last.ok
    /\ \E p \in Rows(peers) :
          /\ p.name = last.name
          /\ Len(p.groups) = 2
          /\ p.groups[1] = last.group

(* C13: assign_group with a group outside the fixed set fails with         *)
(* InvalidGroup whether or not the peer exists; with a valid group and no  *)
(* peer of that name it fails with PeerNotFound; both change nothing.      *)
C13_AssignGroupFailures ==
    [][ last'.op = "assign_group"
        => /\ last'.group \notin {"admin", "workers", "sensors", "public", "internal"}
                => ( /\ ~last'.ok /\ last'.err = "InvalidGroup"
                     /\ peers' = peers /\ networks' = networks )
           /\ ( /\ last'.group \in {"admin", "workers", "sensors", "public", "internal"}
                /\ \A p \in Rows(peers) : p.name # last'.name )
                => ( /\ ~last'.ok /\ last'.err = "PeerNotFound"
                     /\ peers' = peers /\ networks' = networks ) ]_vars

(* C13 witness: an invalid group was refused for a name no peer has *)
C13_Witness ==
    /\ last.op = "assign_group" /\ ~last.ok /\ last.err = "InvalidGroup"
    /\ \A p \in Rows(peers) : p.name # last.name
    /\ \E p \in Rows(peers) : p.groups # <<>>

(* C14: list_peers(network_id, group) returns exactly the stored peers of  *)
(* network_id (of all networks when omitted) whose group set contains      *)
(* group (all when omitted), each once and in stored insertion order.      *)
C14_ListPeersInInsertionOrder ==
    last.op = "list_peers"
        => last.out
             = SelectSeq(peers,
                   LAMBDA p : /\ (last.network_id = None
                                    \/ p.network_id = last.network_id)
                              /\ (last.group = ""
                                    \/ last.group \in GroupSet(p)))

(* C19: assign_group(name, g) with a valid group only adds g: every peer's *)
(* group set afterwards is its set before or that set plus g, nothing else *)
(* of a peer changes, and peers of another name are unchanged.             *)
C19_AssignGroupOnlyAdds ==
    [][ (last'.op = "assign_group" /\ last'.ok)
        => /\ networks' = networks
           /\ Len(peers') = Len(peers)
           /\ \A i \in 1..Len(peers) :
                /\ peers'[i] = [peers[i] EXCEPT !.groups = peers'[i].groups]
                /\ \/ GroupSet(peers'[i]) = GroupSet(peers[i])
                   \/ GroupSet(peers'[i]) = GroupSet(peers[i]) \cup {last'.group}
                /\ peers[i].name # last'.name => peers'[i] = peers[i] ]_vars

----------------------------------------------------------------------------
(* C15: ping_peer on a name no peer has fails with PeerNotFound and        *)
(* changes nothing; on a name some peer has it changes the state exactly   *)
(* when the simulated result is reachable, and then exactly one peer of    *)
(* that name becomes connected with the fresh timestamp while every other  *)
(* row, and every network, stays as it was.                                *)
C15_PingPeerContract ==
    [][last'.op = "ping_peer" =>
         LET named == {i \in 1..Len(peers) : peers[i].name = last'.name}
         IN /\ named = {} =>
                   /\ ~last'.ok /\ last'.err = "PeerNotFound"
                   /\ networks' = networks /\ peers' = peers
            /\ (named # {} /\ ~last'.reachable) =>
                   networks' = networks /\ peers' = peers
            /\ (named # {} /\ last'.reachable) =>
                   /\ networks' = networks
                   /\ peers' # peers
                   /\ \E i \in named :
                          peers' = [peers EXCEPT ![i].status = "connected",
                                                 ![i].last_handshake = clock']]_vars

----------------------------------------------------------------------------
ReadOps == {"get_status", "list_peers", "generate_config", "export_network_map"}

RECURSIVE TotalPeerCount(_)
TotalPeerCount(nets) ==
    IF nets = {} THEN 0
    ELSE LET n == CHOOSE m \in nets : TRUE
         IN n.peer_count + TotalPeerCount(nets \ {n})

NumConnected(prs) ==
    Cardinality({p \in Rows(prs) : p.status = "connected"})

(* C16: get_status, list_peers, generate_config and export_network_map     *)
(* leave networks and peers exactly as they were, whether they return or   *)
(* raise; get_status reports connected_peers as the number of peers whose  *)
(* status is connected and total_peers as the sum of peer_count over the   *)
(* networks.                                                               *)
C16_ReadsChangeNothing ==
    [][last'.op \in ReadOps =>
         /\ networks' = networks
         /\ peers' = peers
         /\ last'.op = "get_status" =>
                /\ last'.ok
                /\ last'.out = <<[connected_peers |-> NumConnected(peers),
                                  total_peers |-> TotalPeerCount(Rows(networks))]>>]_vars

(* get_status has reported a connected peer, and a total that is not the   *)
(* number of peer rows, on a store with two networks                       *)
C16_Witness ==
    /\ last.op = "get_status"
    /\ last.out[1].connected_peers = 1
    /\ last.out[1].total_peers # Len(peers)
    /\ Len(networks) = 2

(* C17: the command line commands config <peer_name> and map <network_id>  *)
(* end in an error and print nothing when no stored peer has that name,    *)
(* respectively no stored network has that id.                             *)
C17_CliNoMatchIsError ==
    last.op = "main" =>
        /\ (last.command = "config"
            /\ \A p \in Rows(peers) : p.name # last.name)
               => (~last.ok /\ last.out = <<>>)
        /\ (last.command = "map"
            /\ \A n \in Rows(networks) : n.id # last.network_id)
               => (~last.ok /\ last.out = <<>>)

(* C20: a peer starts disconnected and without groups; a step changes a    *)
(* peer's status only if it is a ping_peer call, and a connected peer that *)
(* is still stored after a step is still connected.                        *)
C20_StatusOnlyRaisedByPing ==
    /\ \A p \in Rows(peers) : p.status = "disconnected" /\ p.groups = <<>>
    /\ [][/\ \A q \in Rows(peers') :
                (\A p \in Rows(peers) : p.id # q.id)
                    => (q.status = "disconnected" /\ q.groups = <<>>)
          /\ \A p \in Rows(peers), q \in Rows(peers') :
                p.id = q.id =>
                    /\ p.status # q.status => last'.op = "ping_peer"
                    /\ p.status = "connected" => q.status = "connected"]_vars

(* a connected peer has been pinged again, found unreachable, and is still *)
(* stored as connected                                                     *)
C20_Witness ==
    /\ last.op = "ping_peer" /\ last.ok /\ ~last.reachable
    /\ \E p \in Rows(peers) : p.name = last.name /\ p.status = "connected"

----------------------------------------------------------------------------
(* C18: with concurrent callers of add_peer without an explicit ip, two    *)
(* peers of one network can end up stored with the same address (the       *)
(* state C18_Witness describes), and in every state of every interleaving  *)
(* each network's peer_count is the number of its peer rows.               *)
C18_CountMatchesRowsUnderInterleaving ==
    \A i \in 1..Len(networks) :
        networks[i].peer_count
            = Cardinality({j \in 1..Len(peers) :
                              peers[j].network_id = networks[i].id})

(* both calls have returned a peer id, and the two peers they added to one *)
(* network under different names hold the same address                     *)
C18_Witness ==
    /\ \A c \in Callers : calls[c].pc = "done"
    /\ \E i, j \in 1..Len(peers) :
          /\ i # j
          /\ peers[i].network_id = peers[j].network_id
          /\ peers[i].name # peers[j].name
          /\ peers[i].ip # None
          /\ peers[i].ip = peers[j].ip
          /\ \E c, d \in Callers :
                /\ c # d
                /\ calls[c].name = peers[i].name
                /\ calls[d].name = peers[j].name
                /\ calls[c].ip = peers[i].ip
                /\ calls[d].ip = peers[j].ip
====
